---------------------------- MODULE Spec2Model ----------------------------
(***************************************************************************)
(* Model of two pieces of the SwarmUI ComfyUI extra nodes:                 *)
(*                                                                         *)
(*   SwarmComfyCommon/__init__.py  the NODE_CLASS_MAPPINGS aggregation, a  *)
(*                                 left-to-right chain of dict unions;     *)
(*   SwarmComfyExtra/SwarmRemBg.py the SwarmRemBg.rem node operation.      *)
(*                                                                         *)
(* Floating-point samples are fixed-point integers: the integer v stands   *)
(* for the real number v / One, with One == 255 * Sub.  Every real the     *)
(* code computes from such an input (255.0 * x, q / 255.0, 1. - a) is then *)
(* an integer again, so the arithmetic below is exact.  float32 rounding   *)
(* and NaN are outside the model.                                          *)
(*                                                                         *)
(* A tensor / ndarray is a record [shape, data]: shape is the tuple of     *)
(* dimension sizes, data maps every index tuple (1-based) to its value.    *)
(* A PIL image is a record [mode, arr] with arr the H x W x bands array    *)
(* (H x W for the single-band mode "L") of 8-bit values.                   *)
(***************************************************************************)
EXTENDS Integers, Sequences, FiniteSets, TLC

VARIABLES
    sources,              \* the source modules' NODE_CLASS_MAPPINGS, in merge order
    NODE_CLASS_MAPPINGS,  \* the value of the union chain evaluated so far
    merged,               \* how many operands of the chain have been consumed
    pc,                   \* per invocation: the statement of rem about to run
    images,               \* per invocation: the caller's batch tensor (argument)
    i,                    \* per invocation: local i
    img,                  \* per invocation: local img
    output,               \* per invocation: local output
    mask,                 \* per invocation: local mask
    ret,                  \* per invocation: the tuple handed back to the caller
    removeCalls           \* per invocation: the calls made to rembg.remove

vars == <<sources, NODE_CLASS_MAPPINGS, merged, pc, images, i, img, output,
          mask, ret, removeCalls>>

registryVars == <<sources, NODE_CLASS_MAPPINGS, merged>>
frameVars == <<pc, images, i, img, output, mask, ret, removeCalls>>

-----------------------------------------------------------------------------
(* Bounds of the model *)

\* longest chain of source mappings merged (the code merges 11)
MaxSources == 3
\* largest batch handed to rem
MaxBatch == 2
\* fixed-point resolution: grid points per 8-bit quantisation step
Sub == 2
\* how far (in grid points) the swept sample leaves [0.0, 1.0] on either side
Over == 6

\* fixed-point representation of 1.0
One == 255 * Sub

\* node-type keys and descriptors the source mappings are built from
Keys == {"SwarmA", "SwarmB"}
Descs == {"ClassX", "ClassY"}

\* height/width pairs of the images used
Shapes == {<<1, 1>>, <<2, 1>>}

\* the concurrent invocations of rem the model follows
Frames == {"a", "b"}

-----------------------------------------------------------------------------
(* Registry aggregation: SwarmComfyCommon/__init__.py *)

\* every dict over Keys (keys of one dict are unique by construction)
SourceMappings == UNION {[K -> Descs] : K \in SUBSET Keys}

SourceSeqs == UNION {[1..n -> SourceMappings] : n \in 1..MaxSources}

DictOrKeepLeft(a, b) ==
    [k \in (DOMAIN a) \cup (DOMAIN b) |-> IF k \in DOMAIN a THEN a[k] ELSE b[k]]

\* Python's  a | b  on dicts: a new dict, b's entries win
DictOr(a, b) ==
    [k \in (DOMAIN a) \cup (DOMAIN b) |-> IF k \in DOMAIN b THEN b[k] ELSE a[k]]

\* the whole chain  s[1] | s[2] | ... | s[n], evaluated left to right
RECURSIVE MergeChain(_, _)
MergeChain(s, n) ==
    IF n = 1 THEN s[1] ELSE DictOr(MergeChain(s, n - 1), s[n])

-----------------------------------------------------------------------------
(* Tensors: a shape and the elements in row-major (C) order, the layout *)
(* of a contiguous ndarray / tensor                                       *)

NoTensor == [shape |-> <<>>, data |-> <<>>]

\* number of elements of a tensor of the given shape
RECURSIVE Size(_)
Size(shape) == IF shape = <<>> THEN 1 ELSE shape[1] * Size(Tail(shape))

\* the index tuples (1-based) of a tensor of the given shape
Indices(shape) ==
    CASE Len(shape) = 2 -> (1..shape[1]) \X (1..shape[2])
      [] Len(shape) = 3 -> (1..shape[1]) \X (1..shape[2]) \X (1..shape[3])
      [] Len(shape) = 4 ->
            (1..shape[1]) \X (1..shape[2]) \X (1..shape[3]) \X (1..shape[4])
      [] OTHER -> {}

\* row-major offset (0-based) of the element at index tuple idx
RECURSIVE Offset(_, _)
Offset(shape, idx) ==
    IF shape = <<>> THEN 0
    ELSE (idx[1] - 1) * Size(Tail(shape)) + Offset(Tail(shape), Tail(idx))

\* t[idx]
At(t, idx) == t.data[Offset(t.shape, idx) + 1]

SelectLast(t) ==
    LET sz == Size(Tail(t.shape))
    IN  [shape |-> Tail(t.shape),
         data |-> SubSeq(t.data, (t.shape[1] - 1) * sz + 1, t.shape[1] * sz)]

\* images[0]: the first element along the batch dimension
SelectFirst(t) ==
    [shape |-> Tail(t.shape), data |-> SubSeq(t.data, 1, Size(Tail(t.shape)))]

\* t[None,]: a new leading dimension of size 1
IndexNone(t) == [shape |-> <<1>> \o t.shape, data |-> t.data]

\* t.unsqueeze(0): a new leading dimension of size 1
Unsqueeze0(t) == [shape |-> <<1>> \o t.shape, data |-> t.data]

-----------------------------------------------------------------------------
(* Sample arithmetic: SwarmRemBg.py lines 21-22, 25, 28-29 *)

\* v / d rounded toward zero, as a float-to-integer cast rounds
TruncDiv(v, d) == IF v >= 0 THEN v \div d ELSE -((-v) \div d)

\* the fixed-point form of the number n
FP(n) == n * One

\* 255.0 * x
Mul255(v) == 255 * v

\* np.clip(v, lo, hi)
NpClip(v, lo, hi) == IF v < lo THEN lo ELSE IF v > hi THEN hi ELSE v

\* What a float -> uint8 cast of an unrepresentable value yields depends on
\* the build: the low 8 bits of the truncated integer, or saturation.
Builds == {"wrap", "saturate"}

\* astype(np.uint8) of the float v
AstypeUint8(b, v) ==
    LET t == TruncDiv(v, One)
    IN  IF 0 <= t /\ t <= 255 THEN t
        ELSE IF b = "wrap" THEN t % 256
        ELSE IF t < 0 THEN 0 ELSE 255

QuantizeNoClip(b, v) == AstypeUint8(b, v)

QuantizeClipUnit(b, v) == AstypeUint8(b, NpClip(v, FP(0), FP(1)))

\* np.clip(i, 0, 255).astype(np.uint8), per sample
ClipQuantize(b, v) == AstypeUint8(b, NpClip(v, FP(0), FP(255)))

\* the elementwise operations: each yields a new array of the same shape
Times255(t) ==
    [shape |-> t.shape, data |-> [n \in 1..Len(t.data) |-> Mul255(t.data[n])]]

ClipAstype(b, t) ==
    [shape |-> t.shape,
     data |-> [n \in 1..Len(t.data) |-> ClipQuantize(b, t.data[n])]]

NormalizeNoDivide(q) == FP(q)

\* .astype(np.float32) / 255.0, per 8-bit value
Normalize(q) == FP(q) \div 255

InvertDropped(v) == v

\* 1. - v
Invert(v) == FP(1) - v

AsFloatOver255(t) ==
    [shape |-> t.shape, data |-> [n \in 1..Len(t.data) |-> Normalize(t.data[n])]]

OneMinus(t) ==
    [shape |-> t.shape, data |-> [n \in 1..Len(t.data) |-> Invert(t.data[n])]]

-----------------------------------------------------------------------------
(* PIL images *)

NoImage == [mode |-> "none", arr |-> NoTensor]

\* img.getbands()
GetBands(im) ==
    CASE im.mode = "RGBA" -> <<"R", "G", "B", "A">>
      [] im.mode = "RGB" -> <<"R", "G", "B">>
      [] im.mode = "LA" -> <<"L", "A">>
      [] im.mode = "L" -> <<"L">>
      [] OTHER -> <<>>

InBands(band, im) == \E n \in DOMAIN GetBands(im) : GetBands(im)[n] = band

BandIndex(band, im) ==
    CHOOSE n \in DOMAIN GetBands(im) : GetBands(im)[n] = band

\* Image.fromarray of an H x W x C array of 8-bit values
FromArray(a) ==
    [mode |-> IF Len(a.shape) = 2 THEN "L"
              ELSE IF a.shape[3] = 4 THEN "RGBA"
              ELSE IF a.shape[3] = 2 THEN "LA" ELSE "RGB",
     arr |-> a]

\* img.convert("RGBA") of an RGB image: a fully opaque alpha band is added
ConvertRGBA(im) ==
    IF im.mode = "RGBA" THEN im
    ELSE LET h == im.arr.shape[1]
             w == im.arr.shape[2]
         IN  [mode |-> "RGBA",
              arr |-> [shape |-> <<h, w, 4>>,
                       data |-> [n \in 1..(h * w * 4) |->
                                   IF (n - 1) % 4 = 3 THEN 255
                                   ELSE im.arr.data[((n - 1) \div 4) * 3
                                                    + ((n - 1) % 4) + 1]]]]

\* np.array(img)
NpArray(im) == im.arr

GetChannelFirst(im, band) ==
    LET h == im.arr.shape[1]
        w == im.arr.shape[2]
    IN  [mode |-> "L",
         arr |-> [shape |-> <<h, w>>,
                  data |-> [n \in 1..(h * w) |->
                              im.arr.data[(n - 1) * Len(GetBands(im)) + 1]]]]

\* img.getchannel(band): a single-band image holding that band
GetChannel(im, band) ==
    LET h == im.arr.shape[1]
        w == im.arr.shape[2]
        k == BandIndex(band, im)
    IN  [mode |-> "L",
         arr |-> [shape |-> <<h, w>>,
                  data |-> [n \in 1..(h * w) |->
                              im.arr.data[(n - 1) * Len(GetBands(im)) + k]]]]

\* side of the square mask used when the result has no alpha band
FallbackSize == 64

\* torch.zeros((h, w))
Zeros(h, w) ==
    [shape |-> <<h, w>>, data |-> [n \in 1..(h * w) |-> 0]]

FallbackMaskResultSized(im) == Zeros(im.arr.shape[1], im.arr.shape[2])

\* the else branch's mask; the result image im is not consulted
FallbackMask(im) == Zeros(FallbackSize, FallbackSize)

-----------------------------------------------------------------------------
(* Inputs: the batches the host passes, and what rembg.remove may answer *)

\* Pixels (R, G, B samples) the input images are painted with: the first
\* holds 0.0, 1.0 and a half, the second samples between quantisation
\* steps, the third samples outside [0.0, 1.0].
Palette ==
    <<<<0, One, One \div 2>>, <<1, One - 1, Sub + 1>>,
      <<-2 * Sub, One + 2 * Sub, One + 1>>>>

\* the H x W x bands array with pixel pix[<<y, x>>] at row y, column x
Paint(hw, pix, bands) ==
    [shape |-> <<hw[1], hw[2], bands>>,
     data |-> [n \in 1..(hw[1] * hw[2] * bands) |->
                 LET p == (n - 1) \div bands
                 IN  pix[<<(p \div hw[2]) + 1, (p % hw[2]) + 1>>][((n - 1) % bands) + 1]]]

\* one image per palette colour and shape: its first pixel has that colour
\* and the colours rotate through the palette from pixel to pixel
PaletteImages(hw, colours) ==
    {Paint(hw,
           [p \in (1..hw[1]) \X (1..hw[2]) |->
              Palette[((k + p[1] + p[2]) % Len(Palette)) + 1]],
           3) : k \in colours}

\* B images of one shape stacked along a new first dimension
Stack(elems) ==
    LET s == elems[1].shape
        sh == <<Len(elems)>> \o s
        sz == Size(s)
    IN  [shape |-> sh,
         data |-> [n \in 1..(Len(elems) * sz) |->
                     elems[((n - 1) \div sz) + 1].data[((n - 1) % sz) + 1]]]

PaletteBatches ==
    UNION {{Stack(elems) : elems \in [1..n -> PaletteImages(hw, 1..Len(Palette))]} :
             n \in 1..MaxBatch, hw \in Shapes}

\* single-pixel, single-image batches whose red sample sweeps the whole
\* grid from below 0.0 to beyond the first value that overflows 8 bits
SweepBatches ==
    {Stack(<<Paint(<<1, 1>>, [p \in {<<1, 1>>} |-> <<x, 0, One>>], 3)>>) :
       x \in (0 - Over)..(One + Over)}

Batches == PaletteBatches \cup SweepBatches

\* single-pixel batches of two colours, for the runs that follow two
\* invocations at once
PairBatches ==
    UNION {{Stack(elems) : elems \in [1..n -> PaletteImages(<<1, 1>>, {1, 2})]} :
             n \in 1..MaxBatch}

\* pixels the matting results are painted with, per mode
ResultPalette(mode) ==
    CASE mode = "RGBA" -> {<<255, 255, 255, 255>>, <<200, 100, 50, 0>>,
                           <<1, 2, 3, 128>>}
      [] mode = "LA" -> {<<9, 255>>, <<7, 0>>}
      [] mode = "RGB" -> {<<10, 20, 30>>}
      [] mode = "L" -> {<<77>>}

ResultArrays(mode, hw) ==
    IF mode = "L"
    THEN {[shape |-> hw, data |-> Paint(hw, pix, 1).data] :
            pix \in [(1..hw[1]) \X (1..hw[2]) -> ResultPalette(mode)]}
    ELSE {Paint(hw, pix, Len(GetBands([mode |-> mode]))) :
            pix \in [(1..hw[1]) \X (1..hw[2]) -> ResultPalette(mode)]}

ResultImages(modes, shapes) ==
    UNION {{[mode |-> m, arr |-> a] : a \in ResultArrays(m, hw)} :
             m \in modes, hw \in shapes}

\* the call raised instead of returning an image
Raised == [mode |-> "raised", arr |-> NoTensor]

\* rembg.remove is opaque: it may hand back its argument untouched, any
\* image of any mode, or raise
MattingOutcomes(arg) ==
    {arg} \cup ResultImages({"RGBA", "LA", "RGB", "L"}, Shapes) \cup {Raised}

PairOutcomes(arg) ==
    {arg, [mode |-> "RGBA", arr |-> Paint(<<1, 1>>, [p \in {<<1, 1>>} |-> <<1, 2, 3, 128>>], 4)],
     [mode |-> "L", arr |-> [shape |-> <<1, 1>>, data |-> <<77>>]],
     Raised}

-----------------------------------------------------------------------------
(* State *)

NoReturn == <<NoTensor, NoTensor>>

\* no invocation is running and none has been made
FramesIdle ==
    /\ pc = [c \in Frames |-> "idle"]
    /\ images = [c \in Frames |-> NoTensor]
    /\ i = [c \in Frames |-> NoTensor]
    /\ img = [c \in Frames |-> NoImage]
    /\ output = [c \in Frames |-> NoTensor]
    /\ mask = [c \in Frames |-> NoTensor]
    /\ ret = [c \in Frames |-> NoReturn]
    /\ removeCalls = [c \in Frames |-> <<>>]

\* the package is being imported: the chain's first operand is evaluated
InitRegistry ==
    /\ sources \in SourceSeqs
    /\ NODE_CLASS_MAPPINGS = sources[1]
    /\ merged = 1
    /\ FramesIdle

\* the source mappings behind the registry that is loaded when the node runs
LoadedSources ==
    {<<[SwarmA |-> "ClassX", SwarmB |-> "ClassX"], [SwarmB |-> "ClassY"]>>}

\* the package has been imported: the chain is fully evaluated
Init ==
    /\ sources \in LoadedSources
    /\ NODE_CLASS_MAPPINGS = MergeChain(sources, Len(sources))
    /\ merged = Len(sources)
    /\ FramesIdle

-----------------------------------------------------------------------------
(* Import: one  |  of the chain, __init__.py lines 5-17 *)

MergeStep ==
    /\ merged < Len(sources)
    /\ NODE_CLASS_MAPPINGS' = DictOr(NODE_CLASS_MAPPINGS, sources[merged + 1])
    /\ merged' = merged + 1
    /\ UNCHANGED <<sources, frameVars>>

-----------------------------------------------------------------------------
(* SwarmRemBg.rem, one action per statement *)

Loaded == merged = Len(sources)

\* the host calls rem(images) with a batch drawn from B
Call(c, B) ==
    /\ Loaded
    /\ pc[c] = "idle"
    /\ \E batch \in B : images' = [images EXCEPT ![c] = batch]
    /\ pc' = [pc EXCEPT ![c] = "L21"]
    /\ i' = [i EXCEPT ![c] = NoTensor]
    /\ img' = [img EXCEPT ![c] = NoImage]
    /\ output' = [output EXCEPT ![c] = NoTensor]
    /\ mask' = [mask EXCEPT ![c] = NoTensor]
    /\ ret' = [ret EXCEPT ![c] = NoReturn]
    /\ removeCalls' = [removeCalls EXCEPT ![c] = <<>>]
    /\ UNCHANGED registryVars

ScaledInPlace(t) ==
    [t EXCEPT !.data = [n \in 1..Len(t.data) |->
                          IF n <= Size(Tail(t.shape)) THEN Mul255(t.data[n])
                          ELSE t.data[n]]]

\* The caller's batch after line 21.  images[0].cpu().numpy() shares the
\* tensor's memory, but 255.0 * array allocates its result: nothing is
\* written through the view.
BatchAfterScale(t) == t

\* line 21: i = 255.0 * images[0].cpu().numpy()
Scale(c) ==
    /\ pc[c] = "L21"
    /\ i' = [i EXCEPT ![c] = Times255(SelectFirst(images[c]))]
    /\ images' = [images EXCEPT ![c] = BatchAfterScale(@)]
    /\ pc' = [pc EXCEPT ![c] = "L22"]
    /\ UNCHANGED <<registryVars, img, output, mask, ret, removeCalls>>

\* line 22: img = Image.fromarray(np.clip(i, 0, 255).astype(np.uint8))
Quantize(c) ==
    /\ pc[c] = "L22"
    /\ \E b \in Builds :
         img' = [img EXCEPT ![c] = FromArray(ClipAstype(b, i[c]))]
    /\ pc' = [pc EXCEPT ![c] = "L23"]
    /\ UNCHANGED <<registryVars, images, i, output, mask, ret, removeCalls>>

\* line 23: img = img.convert("RGBA")
Convert(c) ==
    /\ pc[c] = "L23"
    /\ img' = [img EXCEPT ![c] = ConvertRGBA(@)]
    /\ pc' = [pc EXCEPT ![c] = "L24"]
    /\ UNCHANGED <<registryVars, images, i, output, mask, ret, removeCalls>>

PostProcessMaskOff == FALSE

\* the keyword argument of line 24
PostProcessMask == TRUE

\* line 24: img = remove(img, post_process_mask=True), the call returning r
\* (r drawn from outcomes) or raising, which unwinds the invocation
Remove(c, outcomes) ==
    /\ pc[c] = "L24"
    /\ \E r \in outcomes :
         /\ removeCalls' =
              [removeCalls EXCEPT ![c] =
                 Append(@, [image |-> img[c],
                            post_process_mask |-> PostProcessMask,
                            result |-> r])]
         /\ IF r = Raised
            THEN /\ pc' = [pc EXCEPT ![c] = "raised"]
                 /\ i' = [i EXCEPT ![c] = NoTensor]
                 /\ img' = [img EXCEPT ![c] = NoImage]
            ELSE /\ pc' = [pc EXCEPT ![c] = "L25"]
                 /\ img' = [img EXCEPT ![c] = r]
                 /\ i' = i
    /\ UNCHANGED <<registryVars, images, output, mask, ret>>

\* line 25: output = np.array(img).astype(np.float32) / 255.0
ToFloat(c) ==
    /\ pc[c] = "L25"
    /\ output' = [output EXCEPT ![c] = AsFloatOver255(NpArray(img[c]))]
    /\ pc' = [pc EXCEPT ![c] = "L26"]
    /\ UNCHANGED <<registryVars, images, i, img, mask, ret, removeCalls>>

\* line 26: output = torch.from_numpy(output)[None,]
AddBatch(c) ==
    /\ pc[c] = "L26"
    /\ output' = [output EXCEPT ![c] = IndexNone(@)]
    /\ pc' = [pc EXCEPT ![c] = "L27"]
    /\ UNCHANGED <<registryVars, images, i, img, mask, ret, removeCalls>>

\* lines 27-28: the alpha band is present;
\* mask = np.array(img.getchannel('A')).astype(np.float32) / 255.0
AlphaMask(c) ==
    /\ pc[c] = "L27"
    /\ InBands("A", img[c])
    /\ mask' = [mask EXCEPT ![c] =
                  AsFloatOver255(NpArray(GetChannel(img[c], "A")))]
    /\ pc' = [pc EXCEPT ![c] = "L29"]
    /\ UNCHANGED <<registryVars, images, i, img, output, ret, removeCalls>>

\* line 29: mask = 1. - torch.from_numpy(mask)
InvertMask(c) ==
    /\ pc[c] = "L29"
    /\ mask' = [mask EXCEPT ![c] = OneMinus(@)]
    /\ pc' = [pc EXCEPT ![c] = "L32"]
    /\ UNCHANGED <<registryVars, images, i, img, output, ret, removeCalls>>

\* lines 27, 30-31: no alpha band;
\* mask = torch.zeros((64,64), dtype=torch.float32, device="cpu")
ZeroMask(c) ==
    /\ pc[c] = "L27"
    /\ ~InBands("A", img[c])
    /\ mask' = [mask EXCEPT ![c] = FallbackMask(img[c])]
    /\ pc' = [pc EXCEPT ![c] = "L32"]
    /\ UNCHANGED <<registryVars, images, i, img, output, ret, removeCalls>>

\* line 32: return (output, mask.unsqueeze(0)); the locals die with the frame
Return(c) ==
    /\ pc[c] = "L32"
    /\ ret' = [ret EXCEPT ![c] = <<output[c], Unsqueeze0(mask[c])>>]
    /\ pc' = [pc EXCEPT ![c] = "returned"]
    /\ i' = [i EXCEPT ![c] = NoTensor]
    /\ img' = [img EXCEPT ![c] = NoImage]
    /\ output' = [output EXCEPT ![c] = NoTensor]
    /\ mask' = [mask EXCEPT ![c] = NoTensor]
    /\ UNCHANGED <<registryVars, images, removeCalls>>

\* the host is done with what the invocation handed back (or with its
\* failure) and drops the batch and the results
Release(c) ==
    /\ pc[c] \in {"returned", "raised"}
    /\ pc' = [pc EXCEPT ![c] = "idle"]
    /\ images' = [images EXCEPT ![c] = NoTensor]
    /\ ret' = [ret EXCEPT ![c] = NoReturn]
    /\ removeCalls' = [removeCalls EXCEPT ![c] = <<>>]
    /\ UNCHANGED <<registryVars, i, img, output, mask>>

-----------------------------------------------------------------------------
(* Specifications *)

\* the import of SwarmComfyCommon
NextRegistry == MergeStep

SpecRegistry == InitRegistry /\ [][NextRegistry]_vars

\* one invocation of rem at a time, again and again
Next ==
    \/ Call("a", Batches)
    \/ Scale("a")
    \/ Quantize("a")
    \/ Convert("a")
    \/ Remove("a", MattingOutcomes(img["a"]))
    \/ ToFloat("a")
    \/ AddBatch("a")
    \/ AlphaMask("a")
    \/ InvertMask("a")
    \/ ZeroMask("a")
    \/ Return("a")
    \/ Release("a")

Spec == Init /\ [][Next]_vars

\* two invocations of rem, their statements interleaved in any order
StepPair(c) ==
    \/ Call(c, PairBatches)
    \/ Scale(c)
    \/ Quantize(c)
    \/ Convert(c)
    \/ Remove(c, PairOutcomes(img[c]))
    \/ ToFloat(c)
    \/ AddBatch(c)
    \/ AlphaMask(c)
    \/ InvertMask(c)
    \/ ZeroMask(c)
    \/ Return(c)
    \/ Release(c)

NextPair == \E c \in Frames : StepPair(c)

SpecPair == Init /\ [][NextPair]_vars

-----------------------------------------------------------------------------
(* Vocabulary of the properties *)

Returned(c) == pc[c] = "returned"

\* the (first) call the invocation made to rembg.remove, and its answer
TheCall(c) == removeCalls[c][1]
Result(c) == removeCalls[c][1].result
Answered(c) == removeCalls[c] # <<>> /\ Result(c) # Raised

\* height, width and the pixels of the image at index 0 of the batch
InH(c) == images[c].shape[2]
InW(c) == images[c].shape[3]
InSamples(c) == Indices(<<InH(c), InW(c), 3>>)
InSample(c, idx) == At(images[c], <<1>> \o idx)

InUnit(v) == 0 <= v /\ v <= FP(1)

FirstInUnit(c) == \A idx \in InSamples(c) : InUnit(InSample(c, idx))

\* the returned pair
OutImage(c) == ret[c][1]
OutMask(c) == ret[c][2]

\* pixels of the matting result, and its alpha value at a pixel
ResPixels(c) == (1..Result(c).arr.shape[1]) \X (1..Result(c).arr.shape[2])
ResAlpha(c, p) == At(Result(c).arr, <<p[1], p[2], BandIndex("A", Result(c))>>)

SameFirst(a, b) ==
    /\ Tail(images[a].shape) = Tail(images[b].shape)
    /\ \A idx \in InSamples(a) : InSample(a, idx) = InSample(b, idx)

-----------------------------------------------------------------------------
(* C1 *)

\* the last of the first n sources that holds key k
LastWith(k, n) ==
    CHOOSE j \in 1..n :
      /\ k \in DOMAIN sources[j]
      /\ \A m \in (j + 1)..n : k \notin DOMAIN sources[m]

\* C1: after any number of sources has been merged in order, the combined
\* mapping's keys are exactly the union of the merged sources' keys and
\* every key resolves to the descriptor of the last merged source holding
\* it; for two sources with disjoint keys the combined mapping has as many
\* entries as the two together, and a key the two share resolves to the
\* second's descriptor.
C1_LastWriterWins ==
    /\ DOMAIN NODE_CLASS_MAPPINGS = UNION {DOMAIN sources[j] : j \in 1..merged}
    /\ \A k \in DOMAIN NODE_CLASS_MAPPINGS :
         NODE_CLASS_MAPPINGS[k] = sources[LastWith(k, merged)][k]
    /\ merged = 2 =>
         /\ (DOMAIN sources[1]) \cap (DOMAIN sources[2]) = {} =>
              Cardinality(DOMAIN NODE_CLASS_MAPPINGS) =
                Cardinality(DOMAIN sources[1]) + Cardinality(DOMAIN sources[2])
         /\ \A k \in (DOMAIN sources[1]) \cap (DOMAIN sources[2]) :
              NODE_CLASS_MAPPINGS[k] = sources[2][k]

\* the whole chain is merged, and a key held by two sources with different
\* descriptors was overwritten
C1_Witness ==
    /\ merged = Len(sources)
    /\ merged >= 2
    /\ \E k \in Keys : \E j \in 1..(merged - 1) :
         /\ k \in DOMAIN sources[j]
         /\ k \in DOMAIN sources[merged]
         /\ sources[j][k] # sources[merged][k]

-----------------------------------------------------------------------------
(* C2 *)

\* C2: when rem returns for a single-image batch with samples in
\* [0.0, 1.0] and the matting function answered with a 4-channel 8-bit
\* image, every value of the output image is in [0.0, 1.0] and the output
\* is a batch of exactly one image.
C2_OutputInUnitBatchOne ==
    \A c \in Frames :
      (/\ Returned(c)
       /\ images[c].shape[1] = 1
       /\ FirstInUnit(c)
       /\ Result(c).mode = "RGBA") =>
         /\ Len(OutImage(c).shape) = 4
         /\ OutImage(c).shape[1] = 1
         /\ Len(OutImage(c).data) = Size(OutImage(c).shape)
         /\ \A n \in 1..Len(OutImage(c).data) : InUnit(OutImage(c).data[n])

\* such a return, with an output value strictly between 0.0 and 1.0
C2_Witness ==
    \E c \in Frames :
      /\ Returned(c)
      /\ images[c].shape[1] = 1
      /\ FirstInUnit(c)
      /\ Result(c).mode = "RGBA"
      /\ \E n \in 1..Len(OutImage(c).data) :
           0 < OutImage(c).data[n] /\ OutImage(c).data[n] < FP(1)

-----------------------------------------------------------------------------
(* C3 *)

\* the matting function handed back its argument, fully opaque
HandedBack(c) ==
    /\ Result(c) = TheCall(c).image
    /\ Result(c).mode = "RGBA"
    /\ \A p \in ResPixels(c) : ResAlpha(c, p) = 255

Abs(v) == IF v < 0 THEN -v ELSE v

\* C3: when rem returns, the first image's samples were in [0.0, 1.0] and
\* the matting function handed back its input unchanged and fully opaque,
\* every colour sample of the output is within 1/255 of the input sample
\* at the same place, and the mask is zero everywhere.
C3_RoundTrip ==
    \A c \in Frames :
      (Returned(c) /\ FirstInUnit(c) /\ HandedBack(c)) =>
         /\ OutImage(c).shape = <<1, InH(c), InW(c), 4>>
         /\ \A idx \in InSamples(c) :
              255 * Abs(At(OutImage(c), <<1>> \o idx) - InSample(c, idx)) <= FP(1)
         /\ OutMask(c).shape = <<1, InH(c), InW(c)>>
         /\ \A n \in 1..Len(OutMask(c).data) : OutMask(c).data[n] = 0

\* such a return where quantisation cost something: a sample came back
\* changed, and a full-scale sample came back as 1.0
C3_Witness ==
    \E c \in Frames :
      /\ Returned(c) /\ FirstInUnit(c) /\ HandedBack(c)
      /\ \E idx \in InSamples(c) :
           At(OutImage(c), <<1>> \o idx) # InSample(c, idx)
      /\ \E idx \in InSamples(c) :
           InSample(c, idx) = FP(1) /\ At(OutImage(c), <<1>> \o idx) = FP(1)

-----------------------------------------------------------------------------
(* C4 *)

\* C4: when rem returns and the matting result has an alpha band, the mask
\* at every pixel is 1.0 minus that pixel's alpha over 255: 0.0 where the
\* alpha is 255 (fully foreground), 1.0 where it is 0 (fully background).
C4_MaskPolarity ==
    \A c \in Frames :
      (Returned(c) /\ InBands("A", Result(c))) =>
        \A p \in ResPixels(c) :
          LET m == At(OutMask(c), <<1, p[1], p[2]>>)
          IN  /\ 255 * m = FP(1) * (255 - ResAlpha(c, p))
              /\ ResAlpha(c, p) = 255 => m = 0
              /\ ResAlpha(c, p) = 0 => m = FP(1)

\* a returned result holding a fully foreground and a fully background pixel
C4_Witness ==
    \E c \in Frames :
      /\ Returned(c)
      /\ InBands("A", Result(c))
      /\ \E p \in ResPixels(c) : ResAlpha(c, p) = 255
      /\ \E p \in ResPixels(c) : ResAlpha(c, p) = 0

-----------------------------------------------------------------------------
(* C5 *)

\* C5: once the matting function has answered with an image that has no
\* alpha band, the invocation is not aborted, and the mask it returns is
\* 1 x 64 x 64 and zero everywhere, whatever the input's resolution.
C5_FallbackMask ==
    \A c \in Frames :
      (Answered(c) /\ ~InBands("A", Result(c))) =>
        /\ pc[c] \in {"L25", "L26", "L27", "L32", "returned"}
        /\ Returned(c) =>
             /\ OutMask(c).shape = <<1, 64, 64>>
             /\ Len(OutMask(c).data) = 64 * 64
             /\ \A n \in 1..Len(OutMask(c).data) : OutMask(c).data[n] = 0

\* a return after an answer without alpha, for a two-pixel input
C5_Witness ==
    \E c \in Frames :
      /\ Returned(c)
      /\ ~InBands("A", Result(c))
      /\ <<InH(c), InW(c)>> = <<2, 1>>
      /\ Result(c).arr.shape[1] = 2

-----------------------------------------------------------------------------
(* C6 *)

\* C6: of two invocations whose batches agree on the image at index 0,
\* both pass the same image and flag to the matting function, and if it
\* gives both the same answer they return the same output image and mask,
\* whatever the batches hold at the other indices and however long they are.
C6_OnlyFirstImage ==
    \A a, b \in Frames :
      (removeCalls[a] # <<>> /\ removeCalls[b] # <<>> /\ SameFirst(a, b)) =>
        /\ TheCall(a).image = TheCall(b).image
        /\ TheCall(a).post_process_mask = TheCall(b).post_process_mask
        /\ (Returned(a) /\ Returned(b) /\ Result(a) = Result(b)) => ret[a] = ret[b]

\* two returned invocations, batches of different length agreeing at index 0
\* and differing at index 1
C6_Witness ==
    \E a, b \in Frames :
      /\ Returned(a) /\ Returned(b)
      /\ SameFirst(a, b)
      /\ Result(a) = Result(b)
      /\ images[a].shape[1] = 1
      /\ images[b].shape[1] = 2
      /\ SelectLast(images[b]) # SelectLast(images[a])

-----------------------------------------------------------------------------
(* C7 *)

\* the 8-bit value the claim gives for the sample x
ClippedTruncation(x) ==
    LET v == 255 * x
        lo == IF v < 0 THEN 0 ELSE v
        cl == IF lo > 255 * One THEN 255 * One ELSE lo
    IN  cl \div One

\* C7: every colour value of the image handed to the matting function is
\* the truncation of min(max(255 x, 0), 255) for the input sample x at the
\* same place: it is in 0..255, it is 255 for x above 1.0 and 0 for x
\* below 0.0, never a value wrapped modulo 256.
C7_ClipBeforeQuantize ==
    \A c \in Frames :
      removeCalls[c] # <<>> =>
        \A idx \in InSamples(c) :
          LET x == InSample(c, idx)
              q == At(TheCall(c).image.arr, idx)
          IN  /\ q = ClippedTruncation(x)
              /\ q \in 0..255
              /\ x > FP(1) => q = 255
              /\ x < 0 => q = 0

\* a call made for a sample whose scaled value no longer fits 8 bits
\* (255 x >= 256), and one made for a sample with 255 x <= -1
C7_Witness ==
    \E c \in Frames :
      /\ removeCalls[c] # <<>>
      /\ \E idx \in InSamples(c) : 255 * InSample(c, idx) >= 256 * One
      /\ \E idx \in InSamples(c) : 255 * InSample(c, idx) <= 0 - One

-----------------------------------------------------------------------------
(* C8 *)

\* two returned invocations given the same batch and the same answer
\* returned the same pair
SameInSameOut ==
    \A a, b \in Frames :
      (Returned(a) /\ Returned(b) /\ images[a] = images[b]
         /\ Result(a) = Result(b)) => ret[a] = ret[b]

\* a step of invocation c leaves alone what outlives it: the registry, the
\* batch it was given, and everything belonging to the other invocation
FrameStep ==
    /\ NODE_CLASS_MAPPINGS' = NODE_CLASS_MAPPINGS
    /\ sources' = sources
    /\ \A c \in Frames :
         (pc[c] # "idle" /\ pc'[c] # "idle") => images'[c] = images[c]
    /\ \A c \in Frames :
         pc'[c] = pc[c] =>
           /\ images'[c] = images[c]
           /\ ret'[c] = ret[c]
           /\ removeCalls'[c] = removeCalls[c]
           /\ <<i'[c], img'[c], output'[c], mask'[c]>> =
                <<i[c], img[c], output[c], mask[c]>>

\* C8: in any interleaving of invocations of rem, every step leaves the
\* registry as it was loaded, leaves the invocation's own batch as it was
\* passed in from the call to the return, and leaves the other invocation's
\* batch, locals and results untouched; and what an invocation returns is
\* determined by its batch and the matting function's answer alone.
C8_NoSharedState == [][FrameStep /\ SameInSameOut']_vars

\* both invocations have returned for the same batch and the same answer,
\* with a batch that scaling in place would have changed
C8_Witness ==
    /\ Returned("a") /\ Returned("b")
    /\ images["a"] = images["b"]
    /\ Result("a") = Result("b")
    /\ ScaledInPlace(images["a"]) # images["a"]
    /\ NODE_CLASS_MAPPINGS = MergeChain(sources, Len(sources))

-----------------------------------------------------------------------------
(* C9 *)

\* C9: an invocation calls the matting function at most once, and not
\* before line 24; once past line 24 it has called it exactly once, with
\* post_process_mask on and with the quantised image extended to RGBA (four
\* 8-bit channels, alpha 255 everywhere, of the input's height and width);
\* the invocation is aborted exactly when that one call raised, and an
\* aborted invocation has handed back neither an image nor a mask.
C9_RemoveOnce ==
    \A c \in Frames :
      /\ Len(removeCalls[c]) <= 1
      /\ pc[c] \in {"idle", "L21", "L22", "L23", "L24"} => removeCalls[c] = <<>>
      /\ pc[c] \in {"L25", "L26", "L27", "L29", "L32", "returned", "raised"} =>
           /\ Len(removeCalls[c]) = 1
           /\ TheCall(c).post_process_mask = TRUE
           /\ TheCall(c).image.mode = "RGBA"
           /\ TheCall(c).image.arr.shape = <<InH(c), InW(c), 4>>
           /\ \A n \in 1..Len(TheCall(c).image.arr.data) :
                TheCall(c).image.arr.data[n] \in 0..255
           /\ \A y \in 1..InH(c), x \in 1..InW(c) :
                At(TheCall(c).image.arr, <<y, x, 4>>) = 255
           /\ pc[c] = "raised" <=> Result(c) = Raised
      /\ pc[c] = "raised" => ret[c] = NoReturn
      /\ pc[c] # "returned" => ret[c] = NoReturn

\* the one call raised and the invocation was aborted
C9_Witness ==
    \E c \in Frames :
      /\ pc[c] = "raised"
      /\ Len(removeCalls[c]) = 1
      /\ Result(c) = Raised
      /\ images[c].shape[1] = 2

-----------------------------------------------------------------------------
(* C10 *)

\* C10: when rem returns and the matting result has an alpha band, the mask
\* is a batch of one with the output image's height and width, all its
\* values are in [0.0, 1.0], and at every pixel the mask plus the output
\* image's alpha channel (the 4th channel of an RGBA result) is 1.0.
C10_MaskComplementsAlpha ==
    \A c \in Frames :
      (Returned(c) /\ InBands("A", Result(c))) =>
        LET k == BandIndex("A", Result(c))
        IN  /\ Len(OutMask(c).shape) = 3
            /\ OutMask(c).shape[1] = 1
            /\ OutMask(c).shape[2] = OutImage(c).shape[2]
            /\ OutMask(c).shape[3] = OutImage(c).shape[3]
            /\ Len(OutMask(c).data) = Size(OutMask(c).shape)
            /\ Result(c).mode = "RGBA" => k = 4
            /\ \A n \in 1..Len(OutMask(c).data) : InUnit(OutMask(c).data[n])
            /\ \A y \in 1..OutImage(c).shape[2], x \in 1..OutImage(c).shape[3] :
                 At(OutMask(c), <<1, y, x>>) + At(OutImage(c), <<1, y, x, k>>)
                   = FP(1)

\* a returned RGBA result of another size than the input, with a partly
\* transparent pixel whose alpha differs from its red value
C10_Witness ==
    \E c \in Frames :
      /\ Returned(c)
      /\ Result(c).mode = "RGBA"
      /\ Result(c).arr.shape[1] # InH(c)
      /\ \E p \in ResPixels(c) :
           /\ ResAlpha(c, p) = 128
           /\ At(Result(c).arr, <<p[1], p[2], 1>>) # 128

=============================================================================
